---- MODULE Spec2Model ----
(***************************************************************************)
(* Model of credit_card_sim_app.py: the two payment simulators             *)
(* (simulate_payments_staggered, simulate_payments_lump_sum) and the part  *)
(* of main() that runs both and subtracts the two interest figures.        *)
(*                                                                         *)
(* Numbers.  Balances and amounts are integers (the widgets of main()      *)
(* produce Python ints).  The results of np.mean and of the products and   *)
(* differences built on it are float64 in the program; they are modelled   *)
(* as exact fractions [num, den], a zero denominator standing for NaN      *)
(* (np.mean of an empty list is 0.0/0).  Rounding of float64 is therefore  *)
(* not modelled.                                                           *)
(***************************************************************************)
EXTENDS Integers, Sequences, FiniteSets

VARIABLES
    phase,                     \* "idle" | "staggered" | "lump_sum" | "main": what has run
    initial_balance,
    annual_interest_rate,      \* a fraction [num, den]
    months,
    days_per_month,
    payment_days,              \* the container tested by `day in payment_days`
    payment_amount_staggered,
    lump_sum_day,
    lump_sum_amount,
    staggered,                 \* what simulate_payments_staggered returned
    lump_sum,                  \* what simulate_payments_lump_sum returned
    difference                 \* main(): annual_interest_lump_sum - annual_interest_staggered

vars == <<phase, initial_balance, annual_interest_rate, months, days_per_month,
          payment_days, payment_amount_staggered, lump_sum_day, lump_sum_amount,
          staggered, lump_sum, difference>>

(***************************************************************************)
(* Bounds of the model.                                                    *)
(***************************************************************************)
MaxBalance == 3
MaxMonths == 2
MaxDays == 2
MaxAmount == 2

(***************************************************************************)
(* Default arguments of the two functions (also the widgets' defaults).    *)
(***************************************************************************)
DefaultInitialBalance == 30000
DefaultRatePercent == 4
DefaultMonths == 12
DefaultDaysPerMonth == 30
DefaultPaymentDays == {7, 14, 21, 28}
DefaultPaymentAmount == 1000
DefaultLumpSumDay == 28
DefaultLumpSumAmount == 4000

(***************************************************************************)
(* Fractions.                                                              *)
(***************************************************************************)
Rat(n, d) == [num |-> n, den |-> d]

NaN == Rat(0, 0)

RECURSIVE Gcd(_, _)
Gcd(a, b) == IF b = 0 THEN a ELSE Gcd(b, a % b)

Lcm(a, b) == (a \div Gcd(a, b)) * b

RatMul(a, b) == Rat(a.num * b.num, a.den * b.den)

RatSub(a, b) ==
    IF a.den = 0 \/ b.den = 0 THEN NaN
    ELSE LET l == Lcm(a.den, b.den)
         IN  Rat(a.num * (l \div a.den) - b.num * (l \div b.den), l)

\* The sum of s[lo..hi], by halves (np.mean adds pairwise).
RECURSIVE SumRange(_, _, _)
SumRange(s, lo, hi) ==
    IF lo > hi THEN 0
    ELSE IF lo = hi THEN s[lo]
    ELSE LET mid == (lo + hi) \div 2
         IN  SumRange(s, lo, mid) + SumRange(s, mid + 1, hi)

SumSeq(s) == SumRange(s, 1, Len(s))

\* np.mean(daily_balances): the sum over the count; 0/0 (NaN) for an empty list.
Mean(daily_balances) == Rat(SumSeq(daily_balances), Len(daily_balances))

(***************************************************************************)
(* simulate_payments_staggered                                             *)
(***************************************************************************)
\* Mutants of the body of the inner loop (lines 28-31).
StaggeredDayNoClamp(current_balance, day, pdays, payment_amount) ==
    IF day \in pdays THEN current_balance - payment_amount ELSE current_balance

StaggeredDayClampAlways(current_balance, day, pdays, payment_amount) ==
    LET b == IF day \in pdays THEN current_balance - payment_amount
             ELSE current_balance
    IN  IF b < 0 THEN 0 ELSE b

StaggeredDayFirstOnly(current_balance, day, pdays, payment_amount) ==
    IF day \in pdays /\ \A d \in pdays : day <= d
    THEN (IF current_balance - payment_amount < 0 THEN 0
          ELSE current_balance - payment_amount)
    ELSE current_balance

\* Lines 28-31: the balance at the end of `day`.
StaggeredDay(current_balance, day, pdays, payment_amount) ==
    IF day \in pdays
    THEN (IF current_balance - payment_amount < 0 THEN 0
          ELSE current_balance - payment_amount)
    ELSE current_balance

\* Lines 26-33: for day in range(1, days_per_month + 1), from `day` on: the
\* entries appended to daily_balances and the balance the loop ends with.
RECURSIVE StaggeredDays(_, _, _, _, _)
StaggeredDays(current_balance, day, dpm, pdays, payment_amount) ==
    IF day >= dpm + 1
    THEN [daily_balances |-> <<>>, current_balance |-> current_balance]
    ELSE LET b == StaggeredDay(current_balance, day, pdays, payment_amount)
             rest == StaggeredDays(b, day + 1, dpm, pdays, payment_amount)
         IN  [daily_balances  |-> <<b>> \o rest.daily_balances,
              current_balance |-> rest.current_balance]

\* Line 25: for month in range(months), from `month` on.
RECURSIVE StaggeredMonths(_, _, _, _, _, _)
StaggeredMonths(current_balance, month, mths, dpm, pdays, payment_amount) ==
    IF month >= mths
    THEN [daily_balances |-> <<>>, current_balance |-> current_balance]
    ELSE LET this == StaggeredDays(current_balance, 1, dpm, pdays, payment_amount)
             rest == StaggeredMonths(this.current_balance, month + 1, mths, dpm,
                                     pdays, payment_amount)
         IN  [daily_balances  |-> this.daily_balances \o rest.daily_balances,
              current_balance |-> rest.current_balance]

\* Lines 35-38.
StaggeredSummaryNoAverage(daily_balances, rate) ==
    [daily_balances         |-> daily_balances,
     annual_interest_earned |-> RatMul(Rat(SumSeq(daily_balances), 1), rate),
     avg_daily_balance      |-> Mean(daily_balances)]

StaggeredSummary(daily_balances, rate) ==
    [daily_balances         |-> daily_balances,
     annual_interest_earned |-> RatMul(Mean(daily_balances), rate),
     avg_daily_balance      |-> Mean(daily_balances)]

simulate_payments_staggered(balance, rate, mths, dpm, pdays, payment_amount) ==
    StaggeredSummary(
        StaggeredMonths(balance, 0, mths, dpm, pdays, payment_amount).daily_balances,
        rate)

(***************************************************************************)
(* simulate_payments_lump_sum                                              *)
(***************************************************************************)
\* Mutants of the body of the inner loop (lines 64-67).
LumpSumDayFrom(current_balance, day, payment_day, payment_amount) ==
    IF day >= payment_day
    THEN (IF current_balance - payment_amount < 0 THEN 0
          ELSE current_balance - payment_amount)
    ELSE current_balance

LumpSumDayUpTo(current_balance, day, payment_day, payment_amount) ==
    IF day <= payment_day
    THEN (IF current_balance - payment_amount < 0 THEN 0
          ELSE current_balance - payment_amount)
    ELSE current_balance

LumpSumDayNoClamp(current_balance, day, payment_day, payment_amount) ==
    IF day = payment_day THEN current_balance - payment_amount
    ELSE current_balance

\* Lines 64-67: the balance at the end of `day`.
LumpSumDay(current_balance, day, payment_day, payment_amount) ==
    IF day = payment_day
    THEN (IF current_balance - payment_amount < 0 THEN 0
          ELSE current_balance - payment_amount)
    ELSE current_balance

\* Mutant of the inner loop: range(1, days_per_month), one day short.
RECURSIVE LumpSumDaysShort(_, _, _, _, _)
LumpSumDaysShort(current_balance, day, dpm, payment_day, payment_amount) ==
    IF day >= dpm
    THEN [daily_balances |-> <<>>, current_balance |-> current_balance]
    ELSE LET b == LumpSumDay(current_balance, day, payment_day, payment_amount)
             rest == LumpSumDaysShort(b, day + 1, dpm, payment_day, payment_amount)
         IN  [daily_balances  |-> <<b>> \o rest.daily_balances,
              current_balance |-> rest.current_balance]

\* Lines 62-69: for day in range(1, days_per_month + 1), from `day` on: the
\* entries appended to daily_balances and the balance the loop ends with.
RECURSIVE LumpSumDays(_, _, _, _, _)
LumpSumDays(current_balance, day, dpm, payment_day, payment_amount) ==
    IF day >= dpm + 1
    THEN [daily_balances |-> <<>>, current_balance |-> current_balance]
    ELSE LET b == LumpSumDay(current_balance, day, payment_day, payment_amount)
             rest == LumpSumDays(b, day + 1, dpm, payment_day, payment_amount)
         IN  [daily_balances  |-> <<b>> \o rest.daily_balances,
              current_balance |-> rest.current_balance]

\* Line 61: for month in range(months), from `month` on.
RECURSIVE LumpSumMonths(_, _, _, _, _, _)
LumpSumMonths(current_balance, month, mths, dpm, payment_day, payment_amount) ==
    IF month >= mths
    THEN [daily_balances |-> <<>>, current_balance |-> current_balance]
    ELSE LET this == LumpSumDays(current_balance, 1, dpm, payment_day, payment_amount)
             rest == LumpSumMonths(this.current_balance, month + 1, mths, dpm,
                                   payment_day, payment_amount)
         IN  [daily_balances  |-> this.daily_balances \o rest.daily_balances,
              current_balance |-> rest.current_balance]

\* Lines 71-74.
LumpSumSummary(daily_balances, rate) ==
    [daily_balances         |-> daily_balances,
     annual_interest_earned |-> RatMul(Mean(daily_balances), rate),
     avg_daily_balance      |-> Mean(daily_balances)]

simulate_payments_lump_sum(balance, rate, mths, dpm, payment_day, payment_amount) ==
    LumpSumSummary(
        LumpSumMonths(balance, 0, mths, dpm, payment_day, payment_amount).daily_balances,
        rate)

(***************************************************************************)
(* Inputs.                                                                 *)
(***************************************************************************)
\* What the functions accept: any numbers.  One negative value of each is kept.
Balances == -1 .. MaxBalance
Amounts == -1 .. MaxAmount
LumpAmounts == -1 .. 2 * MaxAmount
MonthCounts == 0 .. MaxMonths
DayCounts == 0 .. MaxDays
Days == 0 .. MaxDays + 1
Rates == {Rat(-1, 100), Rat(0, 100), Rat(DefaultRatePercent, 100)}

\* What the widgets of main() can produce (lines 88-148), scaled to the bounds:
\* every number_input and slider has a positive minimum, the rate slider starts
\* at 0.0, the lump-sum day may exceed days_per_month (31 against 28), and the
\* parsed payment days are the non-negative integers the user typed.
WidgetBalances == 1 .. MaxBalance
WidgetAmounts == 1 .. MaxAmount
WidgetLumpAmounts == 1 .. 2 * MaxAmount
WidgetMonthCounts == 1 .. MaxMonths
WidgetDayCounts == 1 .. MaxDays
WidgetLumpDays == 1 .. MaxDays + 1
WidgetRates == {Rat(0, 100), Rat(DefaultRatePercent, 100)}

NoResult == [daily_balances |-> <<>>, annual_interest_earned |-> NaN,
             avg_daily_balance |-> NaN]

Init ==
    /\ phase = "idle"
    /\ initial_balance = DefaultInitialBalance
    /\ annual_interest_rate = Rat(DefaultRatePercent, 100)
    /\ months = DefaultMonths
    /\ days_per_month = DefaultDaysPerMonth
    /\ payment_days = DefaultPaymentDays
    /\ payment_amount_staggered = DefaultPaymentAmount
    /\ lump_sum_day = DefaultLumpSumDay
    /\ lump_sum_amount = DefaultLumpSumAmount
    /\ staggered = NoResult
    /\ lump_sum = NoResult
    /\ difference = NaN

\* A call of simulate_payments_staggered with arguments of the caller's choice.
SimulateStaggered ==
    /\ phase = "idle"
    /\ \E b \in Balances, r \in Rates, m \in MonthCounts, d \in DayCounts,
          pd \in SUBSET Days, a \in Amounts :
          /\ initial_balance' = b
          /\ annual_interest_rate' = r
          /\ months' = m
          /\ days_per_month' = d
          /\ payment_days' = pd
          /\ payment_amount_staggered' = a
          /\ staggered' = simulate_payments_staggered(b, r, m, d, pd, a)
    /\ phase' = "staggered"
    /\ UNCHANGED <<lump_sum_day, lump_sum_amount, lump_sum, difference>>

\* A call of simulate_payments_lump_sum with arguments of the caller's choice.
SimulateLumpSum ==
    /\ phase = "idle"
    /\ \E b \in Balances, r \in Rates, m \in MonthCounts, d \in DayCounts,
          day \in -1 .. MaxDays + 1, a \in LumpAmounts :
          /\ initial_balance' = b
          /\ annual_interest_rate' = r
          /\ months' = m
          /\ days_per_month' = d
          /\ lump_sum_day' = day
          /\ lump_sum_amount' = a
          /\ lump_sum' = simulate_payments_lump_sum(b, r, m, d, day, a)
    /\ phase' = "lump_sum"
    /\ UNCHANGED <<payment_days, payment_amount_staggered, staggered, difference>>

\* main(), lines 151-167 and 202, on given widget values.
RunMain(b, r, m, d, pd, a, day, la) ==
    /\ initial_balance' = b
    /\ annual_interest_rate' = r
    /\ months' = m
    /\ days_per_month' = d
    /\ payment_days' = pd
    /\ payment_amount_staggered' = a
    /\ lump_sum_day' = day
    /\ lump_sum_amount' = la
    /\ staggered' = simulate_payments_staggered(b, r, m, d, pd, a)
    /\ lump_sum' = simulate_payments_lump_sum(b, r, m, d, day, la)
    /\ difference' =
          RatSub(simulate_payments_lump_sum(b, r, m, d, day, la).annual_interest_earned,
                 simulate_payments_staggered(b, r, m, d, pd, a).annual_interest_earned)
    /\ phase' = "main"

\* main() with the widgets left at their defaults.
MainDefaults ==
    /\ phase = "idle"
    /\ RunMain(DefaultInitialBalance, Rat(DefaultRatePercent, 100), DefaultMonths,
               DefaultDaysPerMonth, DefaultPaymentDays, DefaultPaymentAmount,
               DefaultLumpSumDay, DefaultLumpSumAmount)

\* main() with the widgets moved.
Main ==
    /\ phase = "idle"
    /\ \E b \in WidgetBalances, r \in WidgetRates, m \in WidgetMonthCounts,
          d \in WidgetDayCounts, pd \in SUBSET Days, a \in WidgetAmounts,
          day \in WidgetLumpDays, la \in WidgetLumpAmounts :
          RunMain(b, r, m, d, pd, a, day, la)

Next == SimulateStaggered \/ SimulateLumpSum \/ MainDefaults \/ Main

Spec == Init /\ [][Next]_vars

(***************************************************************************)
(* Vocabulary of the properties.                                           *)
(***************************************************************************)
StaggeredRan == phase \in {"staggered", "main"}
LumpSumRan == phase \in {"lump_sum", "main"}

\* Entry i of a series is written on this day of its month (loop order).
DayOf(i) == ((i - 1) % days_per_month) + 1

\* The balance the day of entry i starts with.
Before(series, i) == IF i = 1 THEN initial_balance ELSE series[i - 1]

Max0(x) == IF x < 0 THEN 0 ELSE x

\* The sum of a series, counted value by value.
RECURSIVE TotalOver(_, _)
TotalOver(series, values) ==
    IF values = {} THEN 0
    ELSE LET v == CHOOSE w \in values : TRUE
         IN  v * Cardinality({i \in DOMAIN series : series[i] = v})
             + TotalOver(series, values \ {v})

Total(series) == TotalOver(series, {series[i] : i \in DOMAIN series})

Abs(x) == IF x < 0 THEN -x ELSE x

RatNorm(q) ==
    LET g == Gcd(Abs(q.num), q.den)
    IN  IF g = 0 THEN q ELSE Rat(q.num \div g, q.den \div g)

\* Equality and order of two numbers (never true of NaN).
RatEq(a, b) == a.den > 0 /\ b.den > 0 /\ RatNorm(a) = RatNorm(b)

RatLess(a, b) ==
    /\ a.den > 0
    /\ b.den > 0
    /\ LET l == Lcm(a.den, b.den)
       IN  a.num * (l \div a.den) < b.num * (l \div b.den)

DefaultRun ==
    /\ phase = "main"
    /\ initial_balance = DefaultInitialBalance
    /\ annual_interest_rate = Rat(DefaultRatePercent, 100)
    /\ months = DefaultMonths
    /\ days_per_month = DefaultDaysPerMonth
    /\ payment_days = DefaultPaymentDays
    /\ payment_amount_staggered = DefaultPaymentAmount
    /\ lump_sum_day = DefaultLumpSumDay
    /\ lump_sum_amount = DefaultLumpSumAmount

\* A debit of `amount` on the day of entry i that the balance cannot cover.
Shortfall(series, i, amount) ==
    Before(series, i) >= 0 /\ amount > Before(series, i)

(***************************************************************************)
(* C1.  With initial_balance >= 0 and payment_amount >= 0, no entry of     *)
(* either returned series is negative.                                     *)
(***************************************************************************)
C1_NeverNegative ==
    /\ (StaggeredRan /\ initial_balance >= 0 /\ payment_amount_staggered >= 0)
          => \A i \in DOMAIN staggered.daily_balances :
                staggered.daily_balances[i] >= 0
    /\ (LumpSumRan /\ initial_balance >= 0 /\ lump_sum_amount >= 0)
          => \A i \in DOMAIN lump_sum.daily_balances :
                lump_sum.daily_balances[i] >= 0

\* Both simulators have met a debit larger than the balance and recorded 0.
C1_Witness ==
    /\ phase = "main"
    /\ \E i \in DOMAIN staggered.daily_balances :
          /\ DayOf(i) \in payment_days
          /\ payment_amount_staggered > Before(staggered.daily_balances, i)
          /\ staggered.daily_balances[i] = 0
    /\ \E i \in DOMAIN lump_sum.daily_balances :
          /\ DayOf(i) = lump_sum_day
          /\ lump_sum_amount > Before(lump_sum.daily_balances, i)
          /\ lump_sum.daily_balances[i] = 0

(***************************************************************************)
(* C2.  Each returned series has exactly months * days_per_month entries   *)
(* (months >= 0, days_per_month >= 0), so the two have the same length.    *)
(***************************************************************************)
C2_SeriesLength ==
    /\ StaggeredRan => Len(staggered.daily_balances) = months * days_per_month
    /\ LumpSumRan => Len(lump_sum.daily_balances) = months * days_per_month
    /\ phase = "main"
          => Len(staggered.daily_balances) = Len(lump_sum.daily_balances)

\* Both ran over several months of several days, with payment days and without.
C2_Witness ==
    /\ phase = "main"
    /\ months >= 2
    /\ days_per_month >= 2
    /\ payment_days \cap (1 .. days_per_month) # {}
    /\ lump_sum_day \in 1 .. days_per_month
    /\ Len(lump_sum.daily_balances) = months * days_per_month

(***************************************************************************)
(* C3.  Scenario C as stated: on the default run the staggered average     *)
(* daily balance is strictly greater than the lump-sum one.                *)
(***************************************************************************)
C3_StaggeredAverageGreater ==
    DefaultRun => RatLess(lump_sum.avg_daily_balance, staggered.avg_daily_balance)

\* C3 as amended: on the default run the staggered average daily balance is
\* strictly less than the lump-sum one.
C3_StaggeredAverageLess ==
    DefaultRun => RatLess(staggered.avg_daily_balance, lump_sum.avg_daily_balance)

\* The default run, both averages computed over its 360 days.
C3_Witness ==
    /\ DefaultRun
    /\ staggered.avg_daily_balance.den = 360
    /\ lump_sum.avg_daily_balance.den = 360
    /\ staggered.avg_daily_balance.num = 3421000
    /\ lump_sum.avg_daily_balance.num = 3750000

(***************************************************************************)
(* C4.  When no payment day can fire (no payment day in 1..days_per_month) *)
(* every entry equals initial_balance, whatever the balance and amounts.   *)
(***************************************************************************)
C4_NoPaymentConstant ==
    /\ (StaggeredRan /\ payment_days \cap (1 .. days_per_month) = {})
          => \A i \in DOMAIN staggered.daily_balances :
                staggered.daily_balances[i] = initial_balance
    /\ (LumpSumRan /\ lump_sum_day \notin 1 .. days_per_month)
          => \A i \in DOMAIN lump_sum.daily_balances :
                lump_sum.daily_balances[i] = initial_balance

\* A staggered run on a negative balance whose only payment days are out of
\* range: nothing is debited and nothing is clamped.
C4_Witness ==
    /\ phase = "staggered"
    /\ initial_balance < 0
    /\ payment_amount_staggered > 0
    /\ payment_days # {}
    /\ payment_days \cap (1 .. days_per_month) = {}
    /\ Len(staggered.daily_balances) >= 2
    /\ staggered.daily_balances[Len(staggered.daily_balances)] = initial_balance

(***************************************************************************)
(* C5.  Once a debit larger than the (non-negative) balance fires, that    *)
(* day's entry and every later entry are 0.                                *)
(***************************************************************************)
C5_ZeroAbsorbing ==
    /\ StaggeredRan
          => \A i \in DOMAIN staggered.daily_balances :
                (/\ DayOf(i) \in payment_days
                 /\ Shortfall(staggered.daily_balances, i, payment_amount_staggered))
                => \A j \in i .. Len(staggered.daily_balances) :
                      staggered.daily_balances[j] = 0
    /\ LumpSumRan
          => \A i \in DOMAIN lump_sum.daily_balances :
                (/\ DayOf(i) = lump_sum_day
                 /\ Shortfall(lump_sum.daily_balances, i, lump_sum_amount))
                => \A j \in i .. Len(lump_sum.daily_balances) :
                      lump_sum.daily_balances[j] = 0

\* Both simulators fall short of a payment in the first month, on a positive
\* balance, with a later month still to run.
C5_Witness ==
    /\ phase = "main"
    /\ months >= 2
    /\ \E i \in 1 .. days_per_month :
          /\ DayOf(i) \in payment_days
          /\ Before(staggered.daily_balances, i) > 0
          /\ Shortfall(staggered.daily_balances, i, payment_amount_staggered)
    /\ \E i \in 1 .. days_per_month :
          /\ DayOf(i) = lump_sum_day
          /\ Before(lump_sum.daily_balances, i) > 0
          /\ Shortfall(lump_sum.daily_balances, i, lump_sum_amount)
    /\ staggered.daily_balances[Len(staggered.daily_balances)] = 0
    /\ lump_sum.daily_balances[Len(lump_sum.daily_balances)] = 0

(***************************************************************************)
(* C6.  Staggered, initial_balance >= 0, payment_amount >= 0, k payment    *)
(* days in 1..days_per_month: from the last payment day of month m to the  *)
(* end of that month the entry is max(0, initial_balance - m*k*amount).    *)
(* On the default run the entry of day 28 is 26000 and there are 360.      *)
(***************************************************************************)
C6_SameDebitsEveryMonth ==
    /\ (StaggeredRan /\ initial_balance >= 0 /\ payment_amount_staggered >= 0)
          => LET firing == payment_days \cap (1 .. days_per_month)
                 k == Cardinality(firing)
             IN  k >= 1 =>
                    \A m \in 1 .. months, day \in 1 .. days_per_month :
                       (\A d \in firing : d <= day)
                       => staggered.daily_balances[(m - 1) * days_per_month + day]
                             = Max0(initial_balance
                                    - m * k * payment_amount_staggered)
    /\ DefaultRun
          => /\ staggered.daily_balances[28] = 26000
             /\ Len(staggered.daily_balances) = 360

\* Two payment days a month over two months, the second month ending lower
\* than the first and the balance not yet exhausted.
C6_Witness ==
    /\ phase = "main"
    /\ months = 2
    /\ Cardinality(payment_days \cap (1 .. days_per_month)) = 2
    /\ staggered.daily_balances[days_per_month]
          = initial_balance - 2 * payment_amount_staggered
    /\ staggered.daily_balances[2 * days_per_month]
          < staggered.daily_balances[days_per_month]

(***************************************************************************)
(* C7.  Lump sum: on every day other than the payment day the entry is the *)
(* previous entry (initial_balance on the first day), across months too.   *)
(* On the default run the first 27 entries are 30000 and day 28 is 26000.  *)
(***************************************************************************)
C7_LumpSumFlat ==
    /\ LumpSumRan
          => \A i \in DOMAIN lump_sum.daily_balances :
                DayOf(i) # lump_sum_day
                => lump_sum.daily_balances[i] = Before(lump_sum.daily_balances, i)
    /\ DefaultRun
          => /\ \A i \in 1 .. 27 : lump_sum.daily_balances[i] = 30000
             /\ lump_sum.daily_balances[28] = 26000

\* The default run: flat to day 27, a drop on day 28, flat across the month
\* boundary, a second drop on day 28 of month 2.
C7_Witness ==
    /\ DefaultRun
    /\ lump_sum.daily_balances[27] = 30000
    /\ lump_sum.daily_balances[28] = 26000
    /\ lump_sum.daily_balances[57] = 26000
    /\ lump_sum.daily_balances[58] = 22000

(***************************************************************************)
(* C8.  For a non-empty series the returned average is the sum of the      *)
(* entries over their number, and the returned interest is that average    *)
(* times annual_interest_rate.                                             *)
(***************************************************************************)
C8_MeanReduction ==
    /\ (StaggeredRan /\ Len(staggered.daily_balances) > 0)
          => /\ RatEq(staggered.avg_daily_balance,
                      Rat(Total(staggered.daily_balances),
                          Len(staggered.daily_balances)))
             /\ RatEq(staggered.annual_interest_earned,
                      RatMul(Rat(Total(staggered.daily_balances),
                                 Len(staggered.daily_balances)),
                             annual_interest_rate))
    /\ (LumpSumRan /\ Len(lump_sum.daily_balances) > 0)
          => /\ RatEq(lump_sum.avg_daily_balance,
                      Rat(Total(lump_sum.daily_balances),
                          Len(lump_sum.daily_balances)))
             /\ RatEq(lump_sum.annual_interest_earned,
                      RatMul(Rat(Total(lump_sum.daily_balances),
                                 Len(lump_sum.daily_balances)),
                             annual_interest_rate))

\* Both series vary, the rate is positive and the staggered average is not a
\* whole number.
C8_Witness ==
    /\ phase = "main"
    /\ annual_interest_rate.num > 0
    /\ Len(staggered.daily_balances) >= 2
    /\ staggered.daily_balances[1] # staggered.daily_balances[Len(staggered.daily_balances)]
    /\ lump_sum.daily_balances[1] # lump_sum.daily_balances[Len(lump_sum.daily_balances)]
    /\ staggered.avg_daily_balance.num % staggered.avg_daily_balance.den # 0
    /\ staggered.annual_interest_earned.num > 0

(***************************************************************************)
(* C9.  simulate_payments_lump_sum with payment_day = d returns what       *)
(* simulate_payments_staggered returns with payment_days = {d}: the same   *)
(* series, average and interest (an empty series gives NaN in both).       *)
(***************************************************************************)
C9_SingleDayEquivalence ==
    LumpSumRan
    => lump_sum = simulate_payments_staggered(initial_balance, annual_interest_rate,
                                              months, days_per_month,
                                              {lump_sum_day}, lump_sum_amount)

\* A lump-sum run whose payment day fires in each of several months.
C9_Witness ==
    /\ phase = "lump_sum"
    /\ months >= 2
    /\ days_per_month >= 2
    /\ lump_sum_day \in 1 .. days_per_month
    /\ lump_sum_amount > 0
    /\ initial_balance > lump_sum_amount
    /\ lump_sum.daily_balances[Len(lump_sum.daily_balances)]
          < lump_sum.daily_balances[days_per_month]

(***************************************************************************)
(* C10.  In main(), with initial_balance >= 0, payment_amount a >= 0, k    *)
(* payment days all in 1..days_per_month, a lump sum of k*a paid on a day  *)
(* d with max(payment_days) <= d <= days_per_month and a rate >= 0: every  *)
(* lump-sum entry is >= the staggered entry of the same day, the two are   *)
(* equal from day d to the end of each month, and the difference (lump-sum *)
(* interest minus staggered interest) is >= 0.                             *)
(***************************************************************************)
C10_Premise ==
    /\ phase = "main"
    /\ initial_balance >= 0
    /\ payment_amount_staggered >= 0
    /\ payment_days \subseteq 1 .. days_per_month
    /\ lump_sum_amount = Cardinality(payment_days) * payment_amount_staggered
    /\ lump_sum_day \in 1 .. days_per_month
    /\ \A d \in payment_days : d <= lump_sum_day
    /\ annual_interest_rate.num >= 0

C10_LumpSumDominates ==
    /\ C10_Premise
          => /\ \A i \in DOMAIN lump_sum.daily_balances :
                   /\ lump_sum.daily_balances[i] >= staggered.daily_balances[i]
                   /\ DayOf(i) >= lump_sum_day
                         => lump_sum.daily_balances[i] = staggered.daily_balances[i]
             /\ difference.den > 0
             /\ difference.num >= 0
    \* The same for a call of either function outside main(): the staggered
    \* result against the lump-sum function on every matching day d.  The
    \* difference is a number only when the series are not empty.
    /\ (/\ phase = "staggered"
        /\ initial_balance >= 0
        /\ payment_amount_staggered >= 0
        /\ payment_days \subseteq 1 .. days_per_month
        /\ annual_interest_rate.num >= 0)
          => \A d \in 1 .. days_per_month :
                (\A p \in payment_days : p <= d)
                => LET other == simulate_payments_lump_sum(
                                   initial_balance, annual_interest_rate, months,
                                   days_per_month, d,
                                   Cardinality(payment_days) * payment_amount_staggered)
                       diff == RatSub(other.annual_interest_earned,
                                      staggered.annual_interest_earned)
                   IN  /\ Len(other.daily_balances) = Len(staggered.daily_balances)
                       /\ \A i \in DOMAIN staggered.daily_balances :
                             /\ other.daily_balances[i] >= staggered.daily_balances[i]
                             /\ DayOf(i) >= d
                                   => other.daily_balances[i]
                                         = staggered.daily_balances[i]
                       /\ months >= 1 => (diff.den > 0 /\ diff.num >= 0)

\* Two staggered payments against one lump sum of twice the amount, the
\* balance running out on the way, and a strictly positive difference.
C10_Witness ==
    /\ C10_Premise
    /\ Cardinality(payment_days) = 2
    /\ months >= 2
    /\ initial_balance < months * lump_sum_amount
    /\ lump_sum.daily_balances[Len(lump_sum.daily_balances)] = 0
    /\ difference.num > 0

====
